---------------------------- MODULE Spec2Model ----------------------------
(***************************************************************************)
(* kube-ai-sre-agent: the scan loop of agent.py and the helpers it calls   *)
(* (helpers.py): policy loading, pod detection, signal collection,         *)
(* incident context construction, the diagnosis call, the normalizer of    *)
(* its answer, the policy gate and the report.                             *)
(*                                                                         *)
(* A Python exception that no handler catches ends the process: the model  *)
(* records it as pc = "crashed" with the raising function in err.          *)
(***************************************************************************)
EXTENDS Integers, Sequences, FiniteSets, TLC

(***************************************************************************)
(* Bounds of the model.                                                    *)
(***************************************************************************)
MaxTextLen == 5
MaxPods == 2
MaxContainers == 2
MaxEvents == 7
MaxRestarts == 1
MaxLogLines == 12

(***************************************************************************)
(* Text.  A text is a sequence of tokens.  "{", "}", " " (whitespace) and  *)
(* "w" (any other character) are single characters; a member token stands  *)
(* for one complete `"key": value` pair of a JSON object, together with    *)
(* the comma that separates it from its neighbours.                        *)
(***************************************************************************)
MemberTokens == {"R", "C", "M", "E"}

Alphabet == {"{", "}", " ", "w"} \cup MemberTokens

\* The result a text was serialized from: the text a caller builds with
\* json.dumps of a result holds that result's values.  Unset for every text
\* that was not built from a result.
VARIABLE normalized

\* The member tokens json.dumps writes: "R*" is "root_causes": v with v the
\* serialized result's root_causes, and so on for the three other fields.
SerializedTokens == {"R*", "C*", "M*", "E*"}

\* The key a member token carries.
MemberKey(tok) ==
  CASE tok \in {"R", "R*"} -> "root_causes"
    [] tok \in {"C", "C*"} -> "confidence"
    [] tok \in {"M", "M*"} -> "recommended_memory"
    [] tok \in {"E", "E*"} -> "explanation_text"

\* The value a member token carries: "R" is "root_causes": ["x"],
\* "C" is "confidence": 0.9, "M" is "recommended_memory": "256Mi",
\* "E" is "explanation_text": "e".
MemberValue(tok) ==
  CASE tok = "R" -> << <<"x">> >>
    [] tok = "C" -> "0.9"
    [] tok = "M" -> "256Mi"
    [] tok = "E" -> <<"e">>
    [] tok \in SerializedTokens -> normalized[MemberKey(tok)]

\* s[from:] of Python, from counted from 0.
SliceFrom(s, from) == SubSeq(s, from + 1, Len(s))

\* s[from:to] of Python.
Slice(s, from, to) == SubSeq(s, from + 1, to)

\* s[-n:] of Python for n > 0: the last n elements, all of s when it is shorter.
Tail_n(s, n) == IF Len(s) <= n THEN s ELSE SubSeq(s, Len(s) - n + 1, Len(s))

\* str.find: the 0-based index of the first occurrence, -1 when there is none.
Find(s, ch) ==
  IF \E i \in 1..Len(s) : s[i] = ch
    THEN (CHOOSE i \in 1..Len(s) : s[i] = ch /\ \A j \in 1..(i - 1) : s[j] # ch) - 1
    ELSE -1

\* str.rfind: the 0-based index of the last occurrence, -1 when there is none.
RFind(s, ch) ==
  IF \E i \in 1..Len(s) : s[i] = ch
    THEN (CHOOSE i \in 1..Len(s) : s[i] = ch /\ \A j \in (i + 1)..Len(s) : s[j] # ch) - 1
    ELSE -1

RECURSIVE LStrip(_)
LStrip(s) == IF s # <<>> /\ Head(s) = " " THEN LStrip(Tail(s)) ELSE s

RECURSIVE RStrip(_)
RStrip(s) ==
  IF s # <<>> /\ s[Len(s)] = " " THEN RStrip(SubSeq(s, 1, Len(s) - 1)) ELSE s

\* str.strip: leading and trailing whitespace removed.
Strip(s) == RStrip(LStrip(s))

(***************************************************************************)
(* json.loads on a text that starts with "{" and ends with "}".  It is an  *)
(* object exactly when everything between the two braces is member tokens  *)
(* and whitespace; otherwise json.loads raises.                            *)
(***************************************************************************)
JsonValid(part) ==
  /\ Len(part) >= 2
  /\ part[1] = "{"
  /\ part[Len(part)] = "}"
  /\ \A i \in 2..(Len(part) - 1) :
       part[i] \in MemberTokens \cup SerializedTokens \cup {" "}

\* The mapping json.loads returns for a valid object: of two members with
\* one key the later one stays.
JsonLoads(part) ==
  LET members == {j \in 2..(Len(part) - 1) : part[j] \in MemberTokens \cup SerializedTokens}
      keys    == {MemberKey(part[i]) : i \in members}
  IN  [k \in keys |->
        MemberValue(part[CHOOSE i \in members :
          /\ MemberKey(part[i]) = k
          /\ \A j \in members : MemberKey(part[j]) = k => j <= i])]

\* dict.setdefault: the mapping with key k set to v unless it has the key.
SetDefault(d, k, v) == IF k \in DOMAIN d THEN d ELSE d @@ (k :> v)

\* d[k] = v
SetItem(d, k, v) == [x \in DOMAIN d \cup {k} |-> IF x = k THEN v ELSE d[x]]

(***************************************************************************)
(* Raw answers of the diagnosis call as parse_llm_response sees them:      *)
(* None, a text, or (the "rare but possible" case of the code) a mapping,  *)
(* of which the code reads only the key "response".                        *)
(***************************************************************************)
NoneRaw == [kind |-> "none", text |-> <<>>, keys |-> {}]

TextRaw(t) == [kind |-> "text", text |-> t, keys |-> {}]

\* A mapping with the given keys whose "response", when present, is t.
DictRaw(keys, t) == [kind |-> "dict", text |-> t, keys |-> keys]

\* Python truthiness of the raw value: None, "" and {} are falsy.
Truthy(raw) ==
  CASE raw.kind = "none" -> FALSE
    [] raw.kind = "text" -> raw.text # <<>>
    [] raw.kind = "dict" -> raw.keys # {}

DiagnosisFields == {"root_causes", "confidence", "recommended_memory", "explanation_text"}

EmptyLLMResponse == <<"Empty LLM response">>

\* helpers.py 310-315
EmptyResult ==
  [root_causes |-> <<>>, confidence |-> "0.0", recommended_memory |-> "N/A",
   explanation_text |-> EmptyLLMResponse]

\* helpers.py 348-353
FallbackResult(raw_text) ==
  [root_causes |-> <<raw_text>>, confidence |-> "0.4",
   recommended_memory |-> "Consider increasing memory limit",
   explanation_text |-> Strip(raw_text)]

\* StructuredResult with `parsed.get("explanation_text") or explanation`: the
\* object's own text preferred to the trailing text.
StructuredResult_OwnTextFirst(raw_text, start, end) ==
  LET parsed      == JsonLoads(Slice(raw_text, start, end))
      explanation == Strip(SliceFrom(raw_text, end))
      withText    == SetItem(parsed, "explanation_text",
                             IF "explanation_text" \in DOMAIN parsed
                               THEN parsed["explanation_text"] ELSE explanation)
  IN  SetDefault(SetDefault(SetDefault(withText,
        "root_causes", <<>>), "confidence", "0.5"), "recommended_memory", "N/A")

\* StructuredResult with the three defaults assigned (d[k] = v) where the
\* code calls setdefault: the object's own values are overwritten.
StructuredResult_DefaultsAssigned(raw_text, start, end) ==
  LET parsed      == JsonLoads(Slice(raw_text, start, end))
      explanation == Strip(SliceFrom(raw_text, end))
      own         == IF "explanation_text" \in DOMAIN parsed
                       THEN parsed["explanation_text"] ELSE <<>>
      withText    == SetItem(parsed, "explanation_text",
                             IF explanation # <<>> THEN explanation ELSE own)
  IN  SetItem(SetItem(SetItem(withText,
        "root_causes", <<>>), "confidence", "0.5"), "recommended_memory", "N/A")

\* helpers.py 326-340: the object found in raw_text[start:end], normalized.
StructuredResult(raw_text, start, end) ==
  LET parsed      == JsonLoads(Slice(raw_text, start, end))
      explanation == Strip(SliceFrom(raw_text, end))
      own         == IF "explanation_text" \in DOMAIN parsed
                       THEN parsed["explanation_text"] ELSE <<>>
      withText    == SetItem(parsed, "explanation_text",
                             IF explanation # <<>> THEN explanation ELSE own)
  IN  SetDefault(SetDefault(SetDefault(withText,
        "root_causes", <<>>), "confidence", "0.5"), "recommended_memory", "N/A")

(***************************************************************************)
(* helpers.py 321-340, the body of the try block: "parsed" with the value  *)
(* it returns, "skipped" when the if is not taken, "exception" when        *)
(* json.loads raises.                                                      *)
(***************************************************************************)
AttemptJson(raw_text) ==
  LET start == Find(raw_text, "{")
      end   == RFind(raw_text, "}") + 1
  IN  IF start # -1 /\ end # -1 /\ end > start
        THEN IF JsonValid(Slice(raw_text, start, end))
               THEN [kind |-> "parsed", value |-> StructuredResult(raw_text, start, end)]
               ELSE [kind |-> "exception", value |-> [unset |-> TRUE]]
        ELSE [kind |-> "skipped", value |-> [unset |-> TRUE]]

\* What a call did: returned a value, or raised.
Returned(v) == [raised |-> FALSE, value |-> v]

Raised == [raised |-> TRUE, value |-> [unset |-> TRUE]]

\* ParseText without the except clause: the exception of json.loads leaves
\* the function.
ParseText_Uncaught(raw_text) ==
  LET attempt == AttemptJson(raw_text)
  IN  IF attempt.kind = "parsed"
        THEN Returned(attempt.value)
        ELSE IF attempt.kind = "exception"
               THEN Raised
               ELSE Returned(FallbackResult(raw_text))

\* helpers.py 321-353 on a text: `except Exception: pass` falls through to
\* the fallback.
ParseText(raw_text) ==
  LET attempt == AttemptJson(raw_text)
  IN  IF attempt.kind = "parsed"
        THEN Returned(attempt.value)
        ELSE Returned(FallbackResult(raw_text))

\* helpers.py 300-353
parse_llm_response(raw) ==
  IF ~Truthy(raw)
    THEN Returned(EmptyResult)
    ELSE ParseText(IF raw.kind = "dict"
                     THEN (IF "response" \in raw.keys THEN raw.text ELSE <<>>)
                     ELSE raw.text)

(***************************************************************************)
(* Pods.  A pod snapshot has a name, a namespace, a phase, its container   *)
(* statuses and its declared containers.  A container status names its     *)
(* container and carries the last-terminated reason, the waiting reason    *)
(* ("None" when that state is absent) and the restart count.               *)
(***************************************************************************)
TerminatedReasons == {"None", "OOMKilled", "Error"}

WaitingReasons == {"None", "CrashLoopBackOff"}

ContainerStatus(name, term, wait, restarts) ==
  [name |-> name, last_terminated |-> term, waiting |-> wait, restart_count |-> restarts]

\* The status slot of an entry that carries no status.
NoStatus == ContainerStatus(0, "None", "None", 0)

\* resources of a declared container: absent (None), or requests and limits,
\* each "None" (absent or empty), "cpu" (set, without a memory key) or the
\* memory quantity.
NoResources == [present |-> FALSE, requests |-> "None", limits |-> "None"]

Resources(req, lim) == [present |-> TRUE, requests |-> req, limits |-> lim]

Container(name, res) == [name |-> name, resources |-> res]

Pod(name, ns, phase, statuses, containers) ==
  [name |-> name, namespace |-> ns, phase |-> phase, statuses |-> statuses,
   containers |-> containers]

\* helpers.py 52-75: the three rules tried on one status, each ending in
\* append and break.
StatusMatches(status) ==
  \/ status.last_terminated = "OOMKilled"
  \/ status.waiting = "CrashLoopBackOff"
  \/ status.restart_count > 0

\* An entry of the detector's list: helpers.py 45 appends the pod itself,
\* helpers.py 58, 68 and 74 append the pair (pod, status).
BareEntry(pod) == [bare |-> TRUE, pod |-> pod, status |-> NoStatus]

PairEntry(pod, status) == [bare |-> FALSE, pod |-> pod, status |-> status]

\* ContainerEntries without the break statements: one entry for every
\* status that matches.
ContainerEntries_NoBreak(pod) ==
  LET Matching[i \in 0..Len(pod.statuses)] ==
        IF i = 0
          THEN <<>>
          ELSE IF StatusMatches(pod.statuses[i])
                 THEN Append(Matching[i - 1], PairEntry(pod, pod.statuses[i]))
                 ELSE Matching[i - 1]
  IN  Matching[Len(pod.statuses)]

\* helpers.py 49-75: the loop over the statuses of one pod, left at the
\* first match by break.
ContainerEntries(pod) ==
  LET hits == {i \in 1..Len(pod.statuses) : StatusMatches(pod.statuses[i])}
  IN  IF hits = {}
        THEN <<>>
        ELSE <<PairEntry(pod, pod.statuses[CHOOSE i \in hits : \A j \in hits : i <= j])>>

\* helpers.py 38-75: one iteration of the loop over the pods.
PodEntries(pod) ==
  IF pod.phase = "Failed" THEN <<BareEntry(pod)>> ELSE ContainerEntries(pod)

\* helpers.py 35-77 on the listed pods.
RECURSIVE collect_problematic_pods(_)
collect_problematic_pods(pods) ==
  IF pods = <<>>
    THEN <<>>
    ELSE PodEntries(Head(pods)) \o collect_problematic_pods(Tail(pods))

(***************************************************************************)
(* Policy documents: what json.load can return for policy.json.            *)
(***************************************************************************)
Namespaces == {"demo", "prod"}

\* The namespace agent.py 19 and helpers.py 32 scan.
NAMESPACE == "demo"

MemorySections ==
  [allowed_namespaces : SUBSET Namespaces, auto_remediate : BOOLEAN]
    \cup [allowed_namespaces : SUBSET Namespaces]
    \cup [auto_remediate : BOOLEAN]
    \cup {[description |-> "memory"]}

PolicyDocuments ==
  [memory_remediation : MemorySections] \cup {[version |-> "1"]}

\* A document with the section and the two fields the gate reads.
ValidPolicy(doc) ==
  /\ "memory_remediation" \in DOMAIN doc
  /\ "allowed_namespaces" \in DOMAIN doc.memory_remediation
  /\ "auto_remediate" \in DOMAIN doc.memory_remediation

\* evaluate_policy that allows every namespace once the allowlist is not
\* empty.
evaluate_policy_AnyAllowlist(doc, p, diag) ==
  IF ~ValidPolicy(doc)
    THEN Raised
    ELSE Returned([allowed |-> doc.memory_remediation.allowed_namespaces # {},
                   auto_remediate |-> doc.memory_remediation.auto_remediate])

\* helpers.py 172-180; a missing key raises KeyError.
evaluate_policy(doc, p, diag) ==
  IF "memory_remediation" \notin DOMAIN doc
    THEN Raised
    ELSE LET mem_policy == doc.memory_remediation
         IN  IF "allowed_namespaces" \notin DOMAIN mem_policy
               THEN Raised
               ELSE IF "auto_remediate" \notin DOMAIN mem_policy
                      THEN Raised
                      ELSE Returned([allowed |-> p.namespace \in mem_policy.allowed_namespaces,
                                     auto_remediate |-> mem_policy.auto_remediate])

(***************************************************************************)
(* Signal collection.  An event is its timestamp (0: last_timestamp is     *)
(* None) and its reason; the message the collector builds from an event    *)
(* is modelled by the event itself.  A log line is its line number.        *)
(***************************************************************************)
Event(ts, reason) == [ts |-> ts, reason |-> reason]

ReportedReasons == {"OOMKilled", "BackOff", "Killing"}

EVENT_LIMIT == 5

TAIL_LINES == 50

EVENT_WINDOW == 5

LOG_WINDOW == 10

\* sorted(events, key = last_timestamp or "", reverse = True): stable, the
\* most recent first.
RECURSIVE SortedByRecency(_)
SortedByRecency(s) ==
  IF s = <<>>
    THEN <<>>
    ELSE LET rest == SortedByRecency(SubSeq(s, 1, Len(s) - 1))
             x    == s[Len(s)]
             k    == Cardinality({i \in 1..Len(rest) : rest[i].ts >= x.ts})
         IN  SubSeq(rest, 1, k) \o <<x>> \o SubSeq(rest, k + 1, Len(rest))

\* The sort compares a timestamp with the "" that stands for a missing one:
\* TypeError.
MixedKeys(s) ==
  /\ \E i \in 1..Len(s) : s[i].ts = 0
  /\ \E i \in 1..Len(s) : s[i].ts # 0

\* helpers.py 90-95: the loop that keeps the events with a reported reason
\* and stops at limit messages.
RECURSIVE TakeReported(_, _, _)
TakeReported(sorted, messages, limit) ==
  IF sorted = <<>>
    THEN messages
    ELSE LET e    == Head(sorted)
             msgs == IF e.reason \in ReportedReasons THEN Append(messages, e) ELSE messages
         IN  IF Len(msgs) >= limit THEN msgs ELSE TakeReported(Tail(sorted), msgs, limit)

\* An outcome of a provider call: it failed, or it returned items.
Failure == [ok |-> FALSE, items |-> <<>>]

Success(items) == [ok |-> TRUE, items |-> items]

\* helpers.py 83-100
collect_pod_events(listing) ==
  IF ~listing.ok \/ MixedKeys(listing.items)
    THEN <<>>
    ELSE TakeReported(SortedByRecency(listing.items), <<>>, EVENT_LIMIT)

\* helpers.py 102-113
collect_pod_logs(reading) ==
  IF ~reading.ok THEN <<>> ELSE Tail_n(reading.items, TAIL_LINES)

\* helpers.py 115-132: items are the containers of the metrics object.
collect_pod_metrics(lookup) ==
  IF ~lookup.ok \/ lookup.items = <<>> THEN "None" ELSE Head(lookup.items)

(***************************************************************************)
(* Incident context.                                                       *)
(***************************************************************************)
\* section.get("memory") if section else None
MemoryOf(section) == IF section \in {"None", "cpu"} THEN "None" ELSE section

\* helpers.py 214-218
IncidentType(st) ==
  IF st.last_terminated = "OOMKilled" THEN "OOMKilled" ELSE "CrashLoopBackOff"

\* helpers.py 205-249. `resources or {}` turns an absent resources section
\* into a dict, and `resources.requests` on a dict raises AttributeError.
build_incident_context(p, st, evs, lgs, mtr) ==
  LET resources == p.containers[1].resources
  IN  IF ~resources.present
        THEN Raised
        ELSE Returned(
          [incident_type |-> IncidentType(st),
           pod           |-> p.name,
           namespace     |-> p.namespace,
           container     |-> p.containers[1].name,
           restart_count |-> st.restart_count,
           pod_status    |-> p.phase,
           resources     |-> [memory_request |-> MemoryOf(resources.requests),
                              memory_limit   |-> MemoryOf(resources.limits)],
           contextual_signals |-> [events    |-> Tail_n(evs, EVENT_WINDOW),
                                   logs_tail |-> Tail_n(lgs, LOG_WINDOW)]])

\* helpers.py 280-297: any failure of the request is caught and None is
\* returned; otherwise the "response" text of the answer.
query_ollama_llm(answer) ==
  IF ~answer.ok THEN NoneRaw ELSE TextRaw(answer.items)

(***************************************************************************)
(* The environment: what the cluster, the diagnosis service and the policy *)
(* file can hand to the agent during a run.                                *)
(***************************************************************************)
FullResources == Resources("64Mi", "128Mi")

OomStatus(name) == ContainerStatus(name, "OOMKilled", "None", 1)

CleanStatus(name) == ContainerStatus(name, "None", "None", 0)

\* The shapes of the pods of the scanned namespace: phase, container
\* statuses and declared containers.
ClusterPodShapes ==
  { [phase |-> "Failed", statuses |-> <<OomStatus(1)>>,
     containers |-> <<Container(1, FullResources)>>],
    [phase |-> "Running", statuses |-> <<CleanStatus(1)>>,
     containers |-> <<Container(1, FullResources)>>],
    [phase |-> "Running", statuses |-> <<OomStatus(1)>>,
     containers |-> <<Container(1, FullResources)>>],
    [phase |-> "Running",
     statuses |-> <<CleanStatus(1), ContainerStatus(2, "None", "CrashLoopBackOff", 0)>>,
     containers |-> <<Container(1, Resources("None", "cpu")), Container(2, FullResources)>>],
    [phase |-> "Running", statuses |-> <<ContainerStatus(1, "Error", "None", 1)>>,
     containers |-> <<Container(1, NoResources)>>],
    [phase |-> "Running", statuses |-> <<OomStatus(1)>>,
     containers |-> <<Container(1, Resources("None", "None"))>> ] }

\* list_namespaced_pod(namespace = "demo").items for the pod shapes f[1], ...,
\* f[n]: the pods are named by their position in the listing.
Listing(f) ==
  [i \in DOMAIN f |-> Pod(i, NAMESPACE, f[i].phase, f[i].statuses, f[i].containers)]

\* list_namespaced_event(...).items for a pod.
ClusterEventListings ==
  { <<>>,
    <<Event(1, "Pulled"), Event(3, "OOMKilled"), Event(2, "BackOff")>>,
    <<Event(0, "Killing"), Event(4, "OOMKilled")>>,
    [i \in 1..(EVENT_LIMIT + 1) |-> Event(i, "BackOff")] }

\* The lines 1..m of a log text.
LogLines(m) == [i \in 1..m |-> i]

\* read_namespaced_pod_log(...).splitlines() for a pod.
ClusterLogReadings == {LogLines(0), LogLines(3), LogLines(MaxLogLines)}

\* metrics["containers"] of the metrics object of a pod.
ClusterMetricsLookups == {<<>>, <<"usage">>}

\* The "response" text of an answer of the diagnosis service.
ServiceAnswers ==
  { <<>>, <<"w">>, <<"{", "w", "}">>, <<"{", "}">>, <<"{", "C", "R", "}", " ", "w">> }

\* The documents policy.json can hold.
PolicyFiles ==
  { [memory_remediation |-> [allowed_namespaces |-> {"demo"}, auto_remediate |-> FALSE]],
    [memory_remediation |-> [allowed_namespaces |-> {}, auto_remediate |-> TRUE]],
    [memory_remediation |-> [allowed_namespaces |-> {"demo"}]],
    [memory_remediation |-> [auto_remediate |-> FALSE]],
    [version |-> "1"] }

(***************************************************************************)
(* State.                                                                  *)
(***************************************************************************)
VARIABLES
  pc,          \* the position of main: the next call it makes
  err,         \* the function whose exception ended the process, or "None"
  policy,      \* main's policy
  pods,        \* the pods the last listing returned
  problematic, \* main's pods: the detector's list of this cycle
  idx,         \* the number of entries of problematic the for loop has taken
  pod, status, \* the targets of the for loop
  events, logs, metrics, context, raw, diagnosis, decision, \* main's locals
  reported,    \* the pods report_incident was called for in this cycle
  calls        \* the external calls made so far in this run

vars ==
  <<pc, err, policy, pods, problematic, idx, pod, status, events, logs, metrics,
    context, raw, diagnosis, decision, reported, calls, normalized>>

Unset == [unset |-> TRUE]

NoPod == Pod(0, "None", "None", <<>>, <<>>)

\* The locals of one iteration of the for loop, before they are assigned.
IterationUnset ==
  /\ events = <<>>
  /\ logs = <<>>
  /\ metrics = "None"
  /\ context = Unset
  /\ raw = NoneRaw
  /\ diagnosis = Unset
  /\ decision = Unset

IterationLocals == <<events, logs, metrics, context, raw, diagnosis, decision>>

\* agent.py 21-22: main starts.
Init ==
  /\ pc = "load_policy"
  /\ err = "None"
  /\ normalized = Unset
  /\ policy = Unset
  /\ pods = <<>>
  /\ problematic = <<>>
  /\ idx = 0
  /\ pod = NoPod
  /\ status = NoStatus
  /\ IterationUnset
  /\ reported = <<>>
  /\ calls = {}

\* An uncaught exception raised by function f ends the process.
Crash(f) ==
  /\ pc' = "crashed"
  /\ err' = f

\* agent.py 25, helpers.py 17-19: open or json.load raises (no file, no
\* JSON), or the document is returned as it is.
LoadPolicy ==
  /\ pc = "load_policy"
  /\ \/ /\ Crash("load_policy")
        /\ UNCHANGED policy
     \/ /\ \E doc \in PolicyFiles : policy' = doc
        /\ pc' = "init_k8s_clients"
        /\ UNCHANGED err
  /\ UNCHANGED <<normalized, pods, problematic, idx, pod, status, IterationLocals, reported, calls>>

\* agent.py 28, helpers.py 21-25: load_kube_config raises or the clients are made.
InitClients ==
  /\ pc = "init_k8s_clients"
  /\ \/ Crash("init_k8s_clients")
     \/ /\ pc' = "collect_problematic_pods"
        /\ UNCHANGED err
  /\ UNCHANGED <<normalized, policy, pods, problematic, idx, pod, status, IterationLocals, reported, calls>>

\* agent.py 30-34, helpers.py 31-77: the listing is outside any try; its
\* exception leaves main.  Otherwise the detector's list is main's pods.
ScanFrom(shapes) ==
  /\ pc = "collect_problematic_pods"
  /\ calls' = calls \cup {"list_namespaced_pod"}
  /\ \/ /\ Crash("collect_problematic_pods")
        /\ UNCHANGED <<pods, problematic, idx, reported>>
     \/ /\ \E n \in 0..MaxPods : \E f \in [1..n -> shapes] :
             /\ pods' = Listing(f)
             /\ problematic' = collect_problematic_pods(Listing(f))
        /\ idx' = 0
        /\ reported' = <<>>
        /\ pc' = "for"
        /\ UNCHANGED err
  /\ UNCHANGED <<normalized, policy, pod, status, IterationLocals>>

Scan == ScanFrom(ClusterPodShapes)

\* agent.py 36: `for pod, status in pods` takes the next entry and unpacks
\* it; an entry that is a pod and not a pair raises TypeError.
NextPod ==
  /\ pc = "for"
  /\ idx < Len(problematic)
  /\ LET entry == problematic[idx + 1]
     IN  IF entry.bare
           THEN /\ Crash("main")
                /\ UNCHANGED <<idx, pod, status>>
           ELSE /\ idx' = idx + 1
                /\ pod' = entry.pod
                /\ status' = entry.status
                /\ pc' = "collect_pod_events"
                /\ UNCHANGED err
  /\ events' = <<>>
  /\ logs' = <<>>
  /\ metrics' = "None"
  /\ context' = Unset
  /\ raw' = NoneRaw
  /\ diagnosis' = Unset
  /\ decision' = Unset
  /\ UNCHANGED <<normalized, policy, pods, problematic, reported, calls>>

\* agent.py 36, 57: the for loop is exhausted; main sleeps.
EndCycle ==
  /\ pc = "for"
  /\ idx = Len(problematic)
  /\ pc' = "sleep"
  /\ UNCHANGED <<normalized, err, policy, pods, problematic, idx, pod, status, IterationLocals,
                 reported, calls>>

\* agent.py 57, 30: the sleep ends and the next cycle starts.
Sleep ==
  /\ pc = "sleep"
  /\ pc' = "collect_problematic_pods"
  /\ UNCHANGED <<normalized, err, policy, pods, problematic, idx, pod, status, IterationLocals,
                 reported, calls>>

\* agent.py 40
CollectEvents ==
  /\ pc = "collect_pod_events"
  /\ \E listing \in {Failure} \cup {Success(l) : l \in ClusterEventListings} :
       events' = collect_pod_events(listing)
  /\ pc' = "collect_pod_logs"
  /\ UNCHANGED <<normalized, err, policy, pods, problematic, idx, pod, status, logs, metrics, context,
                 raw, diagnosis, decision, reported, calls>>

\* agent.py 41
CollectLogs ==
  /\ pc = "collect_pod_logs"
  /\ \E reading \in {Failure} \cup {Success(l) : l \in ClusterLogReadings} :
       logs' = collect_pod_logs(reading)
  /\ pc' = "collect_pod_metrics"
  /\ UNCHANGED <<normalized, err, policy, pods, problematic, idx, pod, status, events, metrics, context,
                 raw, diagnosis, decision, reported, calls>>

\* agent.py 42
CollectMetrics ==
  /\ pc = "collect_pod_metrics"
  /\ \E lookup \in {Failure} \cup {Success(l) : l \in ClusterMetricsLookups} :
       metrics' = collect_pod_metrics(lookup)
  /\ pc' = "build_incident_context"
  /\ UNCHANGED <<normalized, err, policy, pods, problematic, idx, pod, status, events, logs, context,
                 raw, diagnosis, decision, reported, calls>>

\* agent.py 45
Build ==
  /\ pc = "build_incident_context"
  /\ LET built == build_incident_context(pod, status, events, logs, metrics)
     IN  IF built.raised
           THEN /\ Crash("build_incident_context")
                /\ UNCHANGED context
           ELSE /\ context' = built.value
                /\ pc' = "query_ollama_llm"
                /\ UNCHANGED err
  /\ UNCHANGED <<normalized, policy, pods, problematic, idx, pod, status, events, logs, metrics,
                 raw, diagnosis, decision, reported, calls>>

\* agent.py 48
Query ==
  /\ pc = "query_ollama_llm"
  /\ \E answer \in {Failure} \cup {Success(t) : t \in ServiceAnswers} :
       raw' = query_ollama_llm(answer)
  /\ calls' = calls \cup {"ollama"}
  /\ pc' = "parse_llm_response"
  /\ UNCHANGED <<normalized, err, policy, pods, problematic, idx, pod, status, events, logs, metrics,
                 context, diagnosis, decision, reported>>

\* agent.py 49
Parse ==
  /\ pc = "parse_llm_response"
  /\ LET parsed == parse_llm_response(raw)
     IN  IF parsed.raised
           THEN /\ Crash("parse_llm_response")
                /\ UNCHANGED diagnosis
           ELSE /\ diagnosis' = parsed.value
                /\ pc' = "evaluate_policy"
                /\ UNCHANGED err
  /\ UNCHANGED <<normalized, policy, pods, problematic, idx, pod, status, events, logs, metrics,
                 context, raw, decision, reported, calls>>

\* agent.py 52
Decide ==
  /\ pc = "evaluate_policy"
  /\ LET decided == evaluate_policy(policy, pod, diagnosis)
     IN  IF decided.raised
           THEN /\ Crash("evaluate_policy")
                /\ UNCHANGED decision
           ELSE /\ decision' = decided.value
                /\ pc' = "report_incident"
                /\ UNCHANGED err
  /\ UNCHANGED <<normalized, policy, pods, problematic, idx, pod, status, events, logs, metrics,
                 context, raw, diagnosis, reported, calls>>

\* agent.py 55, helpers.py 186-199
Report ==
  /\ pc = "report_incident"
  /\ reported' = Append(reported, pod.name)
  /\ calls' = calls \cup {"report_incident"}
  /\ pc' = "for"
  /\ UNCHANGED <<normalized, err, policy, pods, problematic, idx, pod, status, IterationLocals>>

Next ==
  \/ LoadPolicy
  \/ InitClients
  \/ Scan
  \/ NextPod
  \/ EndCycle
  \/ Sleep
  \/ CollectEvents
  \/ CollectLogs
  \/ CollectMetrics
  \/ Build
  \/ Query
  \/ Parse
  \/ Decide
  \/ Report

Spec == Init /\ [][Next]_vars

(***************************************************************************)
(* The helpers on their own: each specification below starts main's state  *)
(* at the call of one helper, with the helper's arguments drawn from all   *)
(* the values of a bounded domain, and takes the step that calls it.       *)
(***************************************************************************)

\* Every raw value up to the text bound: None, a text t, a mapping without
\* or with the "response" text t.
RawInputs(t) ==
  {NoneRaw, TextRaw(t), DictRaw({}, <<>>), DictRaw({"model"}, <<>>),
   DictRaw({"model", "response"}, t)}

InitParse ==
  /\ pc = "parse_llm_response"
  /\ err = "None"
  /\ normalized = Unset
  /\ policy = Unset
  /\ pods = <<>>
  /\ problematic = <<>>
  /\ idx = 0
  /\ pod = NoPod
  /\ status = NoStatus
  /\ events = <<>>
  /\ logs = <<>>
  /\ metrics = "None"
  /\ context = Unset
  /\ \E n \in 0..MaxTextLen : \E t \in [1..n -> Alphabet] : raw \in RawInputs(t)
  /\ diagnosis = Unset
  /\ decision = Unset
  /\ reported = <<>>
  /\ calls = {}

NextParse == Parse

SpecParse == InitParse /\ [][NextParse]_vars

(***************************************************************************)
(* The normalizer applied to its own result.  A result is serialized as a  *)
(* structured object (json.dumps), its explanation_text is appended after  *)
(* the object as trailing text, and the text goes through parse_llm_       *)
(* response again.                                                         *)
(***************************************************************************)

\* json.dumps of a result: "{", one member for each field the result holds,
\* "}".  The members carry the values of the result.
json_dumps(r) ==
  LET member(tok) == IF MemberKey(tok) \in DOMAIN r THEN <<tok>> ELSE <<>>
  IN  <<"{">> \o member("R*") \o member("C*") \o member("M*") \o member("E*") \o <<"}">>

\* The result of the first call becomes the input of the second one.
Reembed ==
  /\ pc = "evaluate_policy"
  /\ normalized = Unset
  /\ normalized' = diagnosis
  /\ raw' = TextRaw(json_dumps(diagnosis) \o diagnosis["explanation_text"])
  /\ diagnosis' = Unset
  /\ pc' = "parse_llm_response"
  /\ UNCHANGED <<err, policy, pods, problematic, idx, pod, status, events, logs, metrics,
                 context, decision, reported, calls>>

NextRoundTrip ==
  \/ Parse
  \/ Reembed

SpecRoundTrip == InitParse /\ [][NextRoundTrip]_vars

\* Every container status: the reasons and restart counts, for container i.
StatusShapes ==
  [last_terminated : TerminatedReasons, waiting : WaitingReasons,
   restart_count : 0..MaxRestarts]

StatusLists ==
  UNION { { [i \in 1..n |-> ContainerStatus(i, f[i].last_terminated, f[i].waiting,
                                             f[i].restart_count)] :
              f \in [1..n -> StatusShapes] } : n \in 0..MaxContainers }

Phases == {"Running", "Failed"}

\* Every pod shape with up to MaxContainers container statuses.
PodShapes ==
  { [phase |-> ph, statuses |-> sts,
     containers |-> [c \in 1..Len(sts) |-> Container(c, FullResources)]] :
      ph \in Phases, sts \in StatusLists }

InitDetect ==
  /\ pc = "collect_problematic_pods"
  /\ err = "None"
  /\ normalized = Unset
  /\ policy = Unset
  /\ pods = <<>>
  /\ problematic = <<>>
  /\ idx = 0
  /\ pod = NoPod
  /\ status = NoStatus
  /\ IterationUnset
  /\ reported = <<>>
  /\ calls = {}

NextDetect == ScanFrom(PodShapes)

SpecDetect == InitDetect /\ [][NextDetect]_vars

\* Diagnoses of the three branches of the normalizer.
DiagnosisSamples ==
  { EmptyResult, FallbackResult(<<"w">>),
    [root_causes |-> << <<"x">> >>, confidence |-> "0.9",
     recommended_memory |-> "256Mi", explanation_text |-> <<"w">>] }

InitPolicy ==
  /\ pc = "evaluate_policy"
  /\ err = "None"
  /\ normalized = Unset
  /\ policy \in PolicyDocuments
  /\ pods = <<>>
  /\ problematic = <<>>
  /\ idx = 1
  /\ \E ns \in Namespaces :
       pod = Pod(1, ns, "Running", <<OomStatus(1)>>, <<Container(1, FullResources)>>)
  /\ status = OomStatus(1)
  /\ events = <<>>
  /\ logs = <<>>
  /\ metrics = "None"
  /\ context = Unset
  /\ raw = NoneRaw
  /\ diagnosis \in DiagnosisSamples
  /\ decision = Unset
  /\ reported = <<>>
  /\ calls = {}

NextPolicy == Decide

SpecPolicy == InitPolicy /\ [][NextPolicy]_vars

\* The resources sections a declared container can have.
ResourceShapes ==
  { NoResources, Resources("None", "None"), Resources("64Mi", "None"),
    Resources("None", "128Mi"), Resources("cpu", "cpu"), FullResources }

FlaggedShapes ==
  { [last_terminated |-> "OOMKilled", waiting |-> "None", restart_count |-> 1],
    [last_terminated |-> "None", waiting |-> "CrashLoopBackOff", restart_count |-> 0],
    [last_terminated |-> "Error", waiting |-> "None", restart_count |-> 1] }

\* Pods of one container that is flagged, and of two containers of which
\* the second is flagged.
BuildPods ==
  { Pod(1, NAMESPACE, "Running",
        <<ContainerStatus(1, s.last_terminated, s.waiting, s.restart_count)>>,
        <<Container(1, r)>>) : s \in FlaggedShapes, r \in ResourceShapes }
    \cup
  { Pod(1, NAMESPACE, "Running",
        <<CleanStatus(1), ContainerStatus(2, s.last_terminated, s.waiting, s.restart_count)>>,
        <<Container(1, r[1]), Container(2, r[2])>>) :
      s \in FlaggedShapes, r \in ResourceShapes \X ResourceShapes }

\* The n most recent events of a pod, the most recent first, as
\* collect_pod_events orders them: event n is the latest.
RecentEvents(n) == [i \in 1..n |-> Event(n - i + 1, "OOMKilled")]

InitBuild ==
  /\ pc = "build_incident_context"
  /\ err = "None"
  /\ normalized = Unset
  /\ policy = Unset
  /\ pods = <<>>
  /\ \E p \in BuildPods :
       /\ problematic = collect_problematic_pods(<<p>>)
       /\ pod = p
       /\ status = problematic[1].status
  /\ idx = 1
  /\ \E n \in 0..MaxEvents : events = RecentEvents(n)
  /\ \E m \in 0..MaxLogLines : logs = LogLines(m)
  /\ metrics \in {"None", "usage"}
  /\ context = Unset
  /\ raw = NoneRaw
  /\ diagnosis = Unset
  /\ decision = Unset
  /\ reported = <<>>
  /\ calls = {}

NextBuild == Build

SpecBuild == InitBuild /\ [][NextBuild]_vars

(***************************************************************************)
(* Properties.                                                             *)
(***************************************************************************)

\* The functions main calls after the detector has returned its list.
Downstream ==
  {"main", "collect_pod_events", "collect_pod_logs", "collect_pod_metrics",
   "build_incident_context", "query_ollama_llm", "parse_llm_response", "evaluate_policy",
   "report_incident"}

\* The pods of the detector's entries, in order.
DetectedNames == [i \in 1..Len(problematic) |-> problematic[i].pod.name]

\* C1: in every scan cycle every entry the detector returned, the pods
\* flagged for phase Failed included, ends in exactly one report: a cycle
\* that reaches its sleep has reported each detected pod once, in order, and
\* no cycle is cut short by a failure after detection.
C1_EveryDetectedIncidentReported ==
  /\ pc = "sleep" => reported = DetectedNames
  /\ pc = "crashed" => err \notin Downstream

\* C2: for every outcome of a diagnosis attempt parse_llm_response does not
\* raise and returns one result that has the four fields root_causes,
\* confidence, recommended_memory and explanation_text.
C2_ParseAlwaysReturnsAResult ==
  pc # "parse_llm_response" =>
    /\ pc = "evaluate_policy"
    /\ err = "None"
    /\ DiagnosisFields \subseteq DOMAIN diagnosis

\* An invalid object between braces went through the fallback.
C2_Witness ==
  /\ pc = "evaluate_policy"
  /\ raw = TextRaw(<<"w", "{", "w", "}">>)
  /\ diagnosis.confidence = "0.4"

\* C3: a failed diagnosis call reaches the normalizer as an absent value,
\* an absent or empty raw value is normalized to the empty-response result,
\* and the cycle goes on through the policy stage to the report: no
\* failure of the normalizer or the policy stage ends it.
C3_FailedCallStillReported ==
  /\ (pc \in {"evaluate_policy", "report_incident"} /\ ~Truthy(raw)) => diagnosis = EmptyResult
  /\ (pc = "crashed" /\ ~Truthy(raw)) => err \notin {"parse_llm_response", "evaluate_policy"}

\* The part of C3 that is about the normalizer alone: once parsed, an
\* absent or empty raw value has given the empty-response result.
AbsentRawGivesEmptyResult ==
  (diagnosis # Unset /\ ~Truthy(raw)) => diagnosis = EmptyResult

\* The 1-based positions of a character in a text.
Positions(t, ch) == {i \in 1..Len(t) : t[i] = ch}

Least(S) == CHOOSE x \in S : \A y \in S : x <= y

Greatest(S) == CHOOSE x \in S : \A y \in S : x >= y

\* r is s without its leading and trailing whitespace.
IsTrimOf(r, s) ==
  LET inked == {i \in 1..Len(s) : s[i] # " "}
  IN  IF inked = {} THEN r = <<>> ELSE r = SubSeq(s, Least(inked), Greatest(inked))

\* The text from its first "{" to its last "}" is a valid object.
HoldsObject(t) ==
  /\ Positions(t, "{") # {}
  /\ Positions(t, "}") # {}
  /\ Least(Positions(t, "{")) < Greatest(Positions(t, "}"))
  /\ JsonValid(SubSeq(t, Least(Positions(t, "{")), Greatest(Positions(t, "}"))))

\* C4: for a non-empty raw text that holds a valid object from its first
\* "{" to its last "}", the result has the object's fields, with
\* explanation_text the trimmed text after the last "}" when that is not
\* empty and else the object's own (empty when it has none), and with
\* root_causes, confidence and recommended_memory defaulted to the empty
\* sequence, 0.5 and "N/A" only when absent; for every other non-empty raw
\* text the result is the fallback built from the raw text.
C4_StructuredOrFallback ==
  (pc = "evaluate_policy" /\ raw.kind = "text" /\ raw.text # <<>>) =>
    LET t == raw.text
    IN  IF HoldsObject(t)
          THEN LET last     == Greatest(Positions(t, "}"))
                   obj      == JsonLoads(SubSeq(t, Least(Positions(t, "{")), last))
                   trailing == SubSeq(t, last + 1, Len(t))
               IN  /\ DOMAIN diagnosis = DOMAIN obj \cup DiagnosisFields
                   /\ IF \E i \in 1..Len(trailing) : trailing[i] # " "
                        THEN IsTrimOf(diagnosis.explanation_text, trailing)
                        ELSE diagnosis.explanation_text =
                               (IF "explanation_text" \in DOMAIN obj
                                  THEN obj.explanation_text ELSE <<>>)
                   /\ diagnosis.root_causes =
                        (IF "root_causes" \in DOMAIN obj THEN obj.root_causes ELSE <<>>)
                   /\ diagnosis.confidence =
                        (IF "confidence" \in DOMAIN obj THEN obj.confidence ELSE "0.5")
                   /\ diagnosis.recommended_memory =
                        (IF "recommended_memory" \in DOMAIN obj
                           THEN obj.recommended_memory ELSE "N/A")
          ELSE /\ DOMAIN diagnosis = DiagnosisFields
               /\ diagnosis.root_causes = <<t>>
               /\ diagnosis.confidence = "0.4"
               /\ diagnosis.recommended_memory = "Consider increasing memory limit"
               /\ IsTrimOf(diagnosis.explanation_text, t)

\* An object with its own explanation_text, followed by text: the trailing
\* text is the explanation, and the absent confidence is 0.5.
C4_Witness ==
  /\ pc = "evaluate_policy"
  /\ raw = TextRaw(<<"{", "E", "}", " ", "w">>)
  /\ diagnosis.explanation_text = <<"w">>
  /\ diagnosis.root_causes = <<>>
  /\ diagnosis.confidence = "0.5"

\* The three detection rules, on one status.
Flagging(st) ==
  \/ st.last_terminated = "OOMKilled"
  \/ st.waiting = "CrashLoopBackOff"
  \/ st.restart_count > 0

\* The positions of the listed pods that are to be flagged.
FlaggedPods ==
  {i \in 1..Len(pods) :
     \/ pods[i].phase = "Failed"
     \/ \E k \in 1..Len(pods[i].statuses) : Flagging(pods[i].statuses[k])}

\* C5: the detector's list holds, in input order and once each, exactly the
\* pods that are Failed or have a status under one of the three rules; a
\* Failed pod comes without a status, whatever its statuses are, and any
\* other with its first status, in declaration order, under a rule.
C5_DetectorOutput ==
  pc = "for" =>
    /\ {problematic[j].pod.name : j \in 1..Len(problematic)} = FlaggedPods
    /\ \A j, k \in 1..Len(problematic) :
         j < k => problematic[j].pod.name < problematic[k].pod.name
    /\ \A j \in 1..Len(problematic) :
         LET e == problematic[j]
             p == pods[e.pod.name]
         IN  /\ e.pod = p
             /\ IF p.phase = "Failed"
                  THEN e.bare /\ e.status = NoStatus
                  ELSE /\ ~e.bare
                       /\ \E k \in 1..Len(p.statuses) :
                            /\ e.status = p.statuses[k]
                            /\ Flagging(p.statuses[k])
                            /\ \A m \in 1..(k - 1) : ~Flagging(p.statuses[m])

\* A Failed pod with a flagged status, then a pod whose second status is
\* the first under a rule and whose first is not.
C5_Witness ==
  /\ pc = "for"
  /\ Len(pods) = 2
  /\ pods[1].phase = "Failed"
  /\ Len(pods[1].statuses) = 1
  /\ Flagging(pods[1].statuses[1])
  /\ pods[2].phase = "Running"
  /\ Len(pods[2].statuses) = 2
  /\ ~Flagging(pods[2].statuses[1])
  /\ pods[2].statuses[2].restart_count > 0
  /\ Len(problematic) = 2
  /\ problematic[1].bare
  /\ problematic[2].status.name = 2

\* C6: with a valid policy evaluate_policy returns allowed = the pod's
\* namespace is in allowed_namespaces and auto_remediate = the policy's
\* flag, whatever the diagnosis is, and no decision changes the policy.
C6_PolicyDecision ==
  /\ [](ValidPolicy(policy) =>
          /\ pc \in {"evaluate_policy", "report_incident"}
          /\ pc = "report_incident" =>
               /\ decision.allowed =
                    (pod.namespace \in policy.memory_remediation.allowed_namespaces)
               /\ decision.auto_remediate = policy.memory_remediation.auto_remediate
               /\ DOMAIN decision = {"allowed", "auto_remediate"})
  /\ [][policy' = policy]_vars

\* A namespace outside a non-empty allowlist is denied.
C6_Witness ==
  /\ pc = "report_incident"
  /\ pod.namespace = "prod"
  /\ policy.memory_remediation.allowed_namespaces = {"demo"}
  /\ policy.memory_remediation.auto_remediate
  /\ decision = [allowed |-> FALSE, auto_remediate |-> TRUE]

\* Once loaded, main's policy never changes, over all cycles.
PolicyReadOnly == [][pc # "load_policy" => policy' = policy]_vars

\* C7: a failure of a cluster signal provider (pod listing, event listing,
\* log retrieval, metrics lookup) never ends the scan loop.
C7_ProviderFailureNeverAbortsLoop ==
  pc = "crashed" =>
    err \notin {"collect_problematic_pods", "collect_pod_events", "collect_pod_logs",
                "collect_pod_metrics"}

\* C8: while main has no valid policy no pod listing, diagnosis call or
\* report happens: the process ends at startup.
C8_NoScanWithoutValidPolicy == ValidPolicy(policy) \/ calls = {}

\* The k latest of the events evs, the most recent first (the timestamps of
\* evs are distinct).
IsMostRecent(kept, evs, k) ==
  /\ Len(kept) = k
  /\ \A i \in 1..k : \E j \in 1..Len(evs) : kept[i] = evs[j]
  /\ \A i \in 1..(k - 1) : kept[i].ts > kept[i + 1].ts
  /\ \A j \in 1..Len(evs) :
       (\A i \in 1..k : kept[i] # evs[j]) => \A i \in 1..k : kept[i].ts > evs[j].ts

Smaller(a, b) == IF a <= b THEN a ELSE b

\* C9: from n events and m log lines the context keeps exactly the
\* min(5, n) most recent events, the most recent first, and the last
\* min(10, m) log lines in the order received.
C9_SignalWindows ==
  pc = "query_ollama_llm" =>
    /\ IsMostRecent(context.contextual_signals.events, events,
                    Smaller(EVENT_WINDOW, Len(events)))
    /\ LET kept == context.contextual_signals.logs_tail
           k    == Smaller(LOG_WINDOW, Len(logs))
       IN  /\ Len(kept) = k
           /\ \A i \in 1..k : kept[i] = logs[Len(logs) - k + i]

\* C10: build_incident_context does not fail for missing resource data: a
\* container without a resources section, or without its requests or
\* limits section, gives a context whose memory_request / memory_limit is
\* the unknown value.
C10_BuildToleratesMissingResources ==
  /\ pc = "crashed" => err # "build_incident_context"
  /\ context # Unset =>
       LET res == pod.containers[1].resources
       IN  /\ (~res.present \/ res.requests = "None") =>
                context.resources.memory_request = "None"
           /\ (~res.present \/ res.limits = "None") =>
                context.resources.memory_limit = "None"

\* A text without the character "}".
NoClosingBrace(t) == \A i \in 1..Len(t) : t[i] # "}"

\* The second call of the round trip has returned: diagnosis is its result
\* and normalized the result of the first call.
Renormalized == pc = "evaluate_policy" /\ normalized # Unset

\* C11 (as stated): for every result r of parse_llm_response, r serialized
\* as a structured object with r's explanation_text appended as trailing
\* text normalizes to a result with r's root_causes and r's confidence,
\* also when r is a fallback result or its explanation_text holds "{" or "}".
C11_RoundTrip ==
  Renormalized =>
    /\ diagnosis["root_causes"] = normalized["root_causes"]
    /\ diagnosis["confidence"] = normalized["confidence"]

\* C11 (amended): the round trip returns r's root_causes and confidence for
\* every result r whose explanation_text holds no "}", fallback results and
\* explanation texts with "{" included.
C11_RoundTripWithoutClosingBrace ==
  (Renormalized /\ NoClosingBrace(normalized["explanation_text"])) =>
    /\ diagnosis["root_causes"] = normalized["root_causes"]
    /\ diagnosis["confidence"] = normalized["confidence"]

\* A fallback result whose explanation_text holds "{" went through the
\* round trip and came back with its root_causes and confidence.
C11_Witness ==
  /\ Renormalized
  /\ normalized = FallbackResult(<<"w", "{", " ">>)
  /\ normalized["explanation_text"] = <<"w", "{">>
  /\ raw = TextRaw(<<"{", "R*", "C*", "M*", "E*", "}", "w", "{">>)
  /\ diagnosis["root_causes"] = << <<"w", "{", " ">> >>
  /\ diagnosis["confidence"] = "0.4"


\* The declared container of pod p that status st belongs to.
ContainerOf(p, st) ==
  p.containers[CHOOSE k \in 1..Len(p.containers) : p.containers[k].name = st.name]

\* C12: in every context built for a flagged pod, the container name and
\* the memory request and limit are those of the container whose status the
\* detector selected, the status that supplies restart_count and
\* incident_type, also when that container is not the first declared one.
C12_ContextDescribesSelectedContainer ==
  context # Unset =>
    /\ context.restart_count = status.restart_count
    /\ context.incident_type = IncidentType(status)
    /\ \E k \in 1..Len(pod.containers) : pod.containers[k].name = status.name
    /\ context.container = status.name
    /\ context.resources =
         [memory_request |-> MemoryOf(ContainerOf(pod, status).resources.requests),
          memory_limit   |-> MemoryOf(ContainerOf(pod, status).resources.limits)]

=============================================================================
